---- MODULE Spec2Model ----
(***************************************************************************)
(* feebb - Finite Element Euler-Bernoulli Beams (src/feebb/feebb.py).      *)
(*                                                                         *)
(* Element, Beam and Postprocessor are modelled as a state machine: one    *)
(* action for Element.__init__, three for the successive parts of          *)
(* Beam.__init__ (assembly loop, support loop, solve), one for             *)
(* Postprocessor.__init__ and one for Postprocessor.interp.  Python        *)
(* numbers are exact rationals <<numerator, denominator>> in lowest terms  *)
(* with a positive denominator, so that `/` is true division.  numpy       *)
(* arrays are functions over 0-based index ranges; Python lists are        *)
(* sequences.  A raised exception is recorded in `err` and ends the run.   *)
(***************************************************************************)
EXTENDS Integers, Sequences, FiniteSets, TLC

(* ------------------------------ bounds --------------------------------- *)
MaxElems == 2
MaxPoints == 3
MaxLen == 2
MaxModulus == 1
MaxLoads == 2

(* ------------------------ Python numbers ------------------------------- *)
Abs(n) == IF n < 0 THEN -n ELSE n

RECURSIVE GCD(_, _)
GCD(a, b) == IF b = 0 THEN a ELSE GCD(b, a % b)

\* a value n/d in lowest terms, d > 0 (d # 0 required)
Norm(n, d) ==
    LET g == GCD(Abs(n), Abs(d))
        s == IF d < 0 THEN -1 ELSE 1
    IN  <<(s * n) \div g, (s * d) \div g>>

R(n) == <<n, 1>>
Zero == R(0)
One == R(1)
\* sums and products reduce before they multiply, to keep the integers small
Add(x, y) ==
    LET g == GCD(x[2], y[2])
    IN  Norm(x[1] * (y[2] \div g) + y[1] * (x[2] \div g), (x[2] \div g) * y[2])
Neg(x) == <<-x[1], x[2]>>
Sub(x, y) == Add(x, Neg(y))
Mul(x, y) ==
    LET g1 == GCD(Abs(x[1]), y[2])
        g2 == GCD(Abs(y[1]), x[2])
    IN  Norm((x[1] \div g1) * (y[1] \div g2), (x[2] \div g2) * (y[2] \div g1))
\* true division; the caller guards y # 0 (Python raises ZeroDivisionError)
Div(x, y) == Mul(x, IF y[1] < 0 THEN <<-y[2], -y[1]>> ELSE <<y[2], y[1]>>)
IsZero(x) == x[1] = 0
Sq(x) == Mul(x, x)
Cube(x) == Mul(x, Mul(x, x))

(* ------------------------- numpy arrays -------------------------------- *)
\* an array holds its entries: the function f, tabulated where it is made
\* (TLC would otherwise re-evaluate the defining expression at every use)
array(f) == IF f = f THEN f ELSE f

zeros(n) == [i \in 0..(n - 1) |-> Zero]
zeros2(n) == [r \in 0..(n - 1) |-> [c \in 0..(n - 1) |-> Zero]]
VecAdd(u, v) == array([i \in DOMAIN u |-> Add(u[i], v[i])])
VecSub(u, v) == array([i \in DOMAIN u |-> Sub(u[i], v[i])])
MatAdd(A, B) ==
    array([r \in DOMAIN A |-> [c \in DOMAIN A[r] |-> Add(A[r][c], B[r][c])]])
Vec4(a, b, c, d) ==
    array([i \in 0..3 |-> CASE i = 0 -> a [] i = 1 -> b [] i = 2 -> c [] OTHER -> d])

(* --------------------------- Element ----------------------------------- *)
None == "None"

\* Element.local_stiffness, for length # 0
local_stiffness(length, E, I) ==
    LET EI  == R(E * I)
        L   == R(length)
        kfv == Div(Mul(R(12), EI), Cube(L))
        kmv == Div(Mul(R(6), EI), Sq(L))
        kft == kmv
        kmt == Div(Mul(R(4), EI), L)
        kmth == Div(Mul(R(2), EI), L)
    IN  array([r \in 0..3 |->
            CASE r = 0 -> Vec4(kfv, Neg(kft), Neg(kfv), Neg(kft))
              [] r = 1 -> Vec4(Neg(kmv), kmt, kmv, kmth)
              [] r = 2 -> Vec4(Neg(kfv), kft, kfv, kft)
              [] OTHER -> Vec4(Neg(kft), kmth, kft, kmt)])

\* Element.fer_point
fer_point(length, p, a) ==
    LET L  == R(length)
        b  == Sub(L, a)
        v0 == Div(Mul(Mul(p, Sq(b)), Add(Mul(R(3), a), b)), Cube(L))
        v1 == Div(Mul(Mul(p, Sq(a)), Add(a, Mul(R(3), b))), Cube(L))
        m0 == Div(Mul(Mul(p, a), Sq(b)), Sq(L))
        m1 == Div(Mul(Mul(p, Sq(a)), b), Sq(L))
    IN  Vec4(v0, Neg(m0), v1, m1)

\* Element.fer_distrib
fer_distrib(length, w) ==
    LET L == R(length)
        v == Div(Mul(w, L), R(2))
        m == Div(Mul(w, Sq(L)), R(12))
    IN  Vec4(v, Neg(m), v, m)

\* Element.fer_patch
fer_patch(length, w, start, end) ==
    LET L  == R(length)
        d  == Sub(end, start)
        a  == Add(start, Div(d, R(2)))
        b  == Sub(L, a)
        wd == Div(Mul(w, d), Cube(L))
        corr == Mul(Div(Sub(a, b), R(4)), Sq(d))
        v0 == Mul(wd, Add(Mul(Add(Mul(R(2), a), L), Sq(b)), corr))
        v1 == Mul(wd, Add(Mul(Add(Mul(R(2), b), L), Sq(a)), corr))
        wd2 == Div(Mul(w, d), Sq(L))
        m0 == Mul(wd2, Add(Mul(a, Sq(b)),
                           Div(Mul(Sub(a, Mul(R(2), b)), Sq(d)), R(12))))
        m1 == Mul(wd2, Add(Mul(Sq(a), b),
                           Div(Mul(Sub(b, Mul(R(2), a)), Sq(d)), R(12))))
    IN  Vec4(v0, Neg(m0), v1, m1)

\* Element.fer_moment: the body is `pass`, the call returns None
fer_moment(length, m, a) == None

\* the term load_vector adds to nodal_loads for one load: an array, or
\* None (isNone); skip when none of the branches matches the type
fer(length, load) ==
    CASE load.type = "udl" ->
            [isNone |-> FALSE, skip |-> FALSE,
             v |-> fer_distrib(length, R(load.magnitude))]
      [] load.type = "point" ->
            [isNone |-> FALSE, skip |-> FALSE,
             v |-> fer_point(length, R(load.magnitude), R(load.location))]
      [] load.type = "patch" ->
            [isNone |-> FALSE, skip |-> FALSE,
             v |-> fer_patch(length, R(load.magnitude), R(load.start), R(load.end))]
      [] load.type = "moment" ->
            [isNone |-> fer_moment(length, R(load.magnitude), R(load.location)) = None,
             skip |-> FALSE, v |-> zeros(4)]
      [] OTHER -> [isNone |-> FALSE, skip |-> TRUE, v |-> zeros(4)]

\* self.nodal_loads + f for one load: ndarray + None raises TypeError
Accumulate(nodal_loads, f) ==
    IF f.isNone THEN [err |-> "TypeError", nodal_loads |-> nodal_loads]
    ELSE IF f.skip THEN [err |-> "none", nodal_loads |-> nodal_loads]
    ELSE [err |-> "none", nodal_loads |-> VecAdd(nodal_loads, f.v)]

\* Element.load_vector: the loop over self.loads from index k on, acc
\* holding the running sum, or the exception that ended the loop
RECURSIVE load_vector(_, _, _, _)
load_vector(length, loads, k, acc) ==
    IF k > Len(loads) \/ acc.err # "none" THEN acc
    ELSE load_vector(length, loads, k + 1,
                     Accumulate(acc.nodal_loads, fer(length, loads[k])))

\* the Element whose load_vector() ended as lv, or the exception it raised
ElementOf(desc, lv) ==
    IF lv.err # "none" THEN [err |-> lv.err]
    ELSE [err |-> "none",
          length |-> desc.length,
          E |-> desc.youngs_mod,
          I |-> desc.moment_of_inertia,
          loads |-> desc.loads,
          stiffness |-> local_stiffness(desc.length, desc.youngs_mod,
                                        desc.moment_of_inertia),
          nodal_loads |-> lv.nodal_loads]

\* Element.__init__(preprocessed): the Element, or the exception raised;
\* local_stiffness() divides by length ** 3
ElementNew(desc) ==
    IF desc.length = 0
    THEN [err |-> "ZeroDivisionError"]
    ELSE ElementOf(desc, load_vector(desc.length, desc.loads, 1,
                                     [err |-> "none", nodal_loads |-> zeros(4)]))

(* ----------------------------- Beam ------------------------------------ *)
\* stiffness_element: zeros_like(self.stiffness) with [a:a+4, a:a+4] = M
stiffness_element(D, a, M) ==
    array([r \in 0..(D - 1) |-> [c \in 0..(D - 1) |->
        IF r >= a /\ r < a + 4 /\ c >= a /\ c < a + 4 THEN M[r - a][c - a] ELSE Zero]])

\* load_element: zeros_like(self.load) with [a:a+4] = v
load_element(D, a, v) ==
    array([r \in 0..(D - 1) |-> IF r >= a /\ r < a + 4 THEN v[r - a] ELSE Zero])

\* the element block written over the window instead of added to it
AddStiffness_overwrite(K, D, i, element) ==
    array([r \in 0..(D - 1) |-> [c \in 0..(D - 1) |->
        IF r >= 2 * i /\ r < 2 * i + 4 /\ c >= 2 * i /\ c < 2 * i + 4
        THEN element.stiffness[r - 2 * i][c - 2 * i] ELSE K[r][c]]])

\* one pass of the assembly loop body on self.stiffness, element i (0-based)
AddStiffness(K, D, i, element) ==
    MatAdd(K, stiffness_element(D, 2 * i, element.stiffness))

\* one pass of the assembly loop body on self.load
SubLoad(F, D, i, element) ==
    VecSub(F, load_element(D, 2 * i, element.nodal_loads))

\* the assembly loop of Beam.__init__ from element i on
RECURSIVE Assemble(_, _, _, _, _)
Assemble(elems, D, i, K, F) ==
    IF i >= Len(elems) THEN [stiffness |-> K, load |-> F]
    ELSE Assemble(elems, D, i + 1,
                  AddStiffness(K, D, i, elems[i + 1]),
                  SubLoad(F, D, i, elems[i + 1]))

\* the body of the support loop for a restrained DOF i
Restrain(K, i) ==
    array([r \in DOMAIN K |-> [c \in DOMAIN K |->
        IF r = i /\ c = i THEN One
        ELSE IF r = i \/ c = i THEN Zero
        ELSE K[r][c]]])

\* the load of a restrained DOF left as assembled
RestrainLoad_kept(F, i) == F

\* self.load[i] = 0 for a restrained DOF i
RestrainLoad(F, i) == [F EXCEPT ![i] = Zero]

\* the spring stiffness stored in place of the diagonal entry
Spring_overwrite(K, i, s) == [K EXCEPT ![i][i] = R(s)]

\* the body of the support loop for an elastic support s > 0 at DOF i
Spring(K, i, s) == [K EXCEPT ![i][i] = Add(K[i][i], R(s))]

\* the body of the support loop for DOF i with support entry s
EnforceStiffness(K, i, s) ==
    IF s < 0 THEN Restrain(K, i) ELSE IF s > 0 THEN Spring(K, i, s) ELSE K

EnforceLoad(F, i, s) == IF s < 0 THEN RestrainLoad(F, i) ELSE F

\* the support loop of Beam.__init__ from DOF i on; supports is a Python list
\* (1-based here), and supports[i] past its end raises IndexError
RECURSIVE Enforce(_, _, _, _, _)
Enforce(K, F, supports, i, D) ==
    IF i >= D THEN [err |-> "none", stiffness |-> K, load |-> F]
    ELSE IF i >= Len(supports) THEN [err |-> "IndexError", stiffness |-> K, load |-> F]
    ELSE Enforce(EnforceStiffness(K, i, supports[i + 1]),
                 EnforceLoad(F, i, supports[i + 1]), supports, i + 1, D)

\* numpy.linalg.solve: LU with row pivoting on the augmented rows
\* M[r] = K[r] ++ <<F[r]>>; an exactly zero pivot column is LinAlgError.
\* LAPACK takes the row of largest magnitude as pivot; in exact arithmetic
\* the solution does not depend on which nonzero pivot is taken, and the
\* first one is taken here.
PivotRow(M, k, D) ==
    CHOOSE p \in k..(D - 1) :
        /\ ~IsZero(M[p][k])
        /\ \A q \in k..(p - 1) : IsZero(M[q][k])

\* rows k and p exchanged
SwapRows(M, k, p, D) ==
    array([r \in 0..(D - 1) |-> IF r = k THEN M[p] ELSE IF r = p THEN M[k] ELSE M[r]])

\* row minus f times the pivot row
RowMinus(row, f, pivot, D) == [c \in 0..D |-> Sub(row[c], Mul(f, pivot[c]))]

\* column k cleared below the pivot row k
ClearBelow(M, k, D) ==
    array([r \in 0..(D - 1) |->
        IF r <= k \/ IsZero(M[r][k]) THEN M[r]
        ELSE RowMinus(M[r], Div(M[r][k], M[k][k]), M[k], D)])

RECURSIVE Eliminate(_, _, _)
Eliminate(M, k, D) ==
    IF k >= D THEN [err |-> "none", M |-> M]
    ELSE IF \A r \in k..(D - 1) : IsZero(M[r][k])
    THEN [err |-> "LinAlgError", M |-> M]
    ELSE Eliminate(ClearBelow(SwapRows(M, k, PivotRow(M, k, D), D), k, D), k + 1, D)

\* back substitution on the upper-triangular rows, from row k down to 0
RECURSIVE DotTail(_, _, _, _)
DotTail(row, x, c, D) ==
    IF c >= D THEN Zero ELSE Add(Mul(row[c], x[c]), DotTail(row, x, c + 1, D))

RECURSIVE BackSub(_, _, _, _)
BackSub(M, x, k, D) ==
    IF k < 0 THEN x
    ELSE BackSub(M,
                 [x EXCEPT ![k] = Div(Sub(M[k][D], DotTail(M[k], x, k + 1, D)), M[k][k])],
                 k - 1, D)

\* the solution read off the eliminated rows e, or the exception
Solution(e, D) ==
    IF e.err # "none" THEN [err |-> e.err, x |-> zeros(D)]
    ELSE [err |-> "none", x |-> BackSub(e.M, zeros(D), D - 1, D)]

\* the rows K[r] ++ <<F[r]>>
Augmented(K, F, D) ==
    array([r \in 0..(D - 1) |-> [c \in 0..D |-> IF c < D THEN K[r][c] ELSE F[r]]])

solve(K, F, D) == Solution(Eliminate(Augmented(K, F, D), 0, D), D)

(* -------------------------- Postprocessor ------------------------------ *)
\* numpy.linspace(0, length, num): num evenly spaced samples, both ends
\* included (num = 1 gives the start alone)
linspace(length, num) ==
    array([j \in 1..num |->
        IF num = 1 THEN Zero ELSE Div(R((j - 1) * length), R(num - 1))])

\* phi_1 with the sign of its cubic term slipped
phi_displacment_sign_slip(x, a) ==
    LET phi_1 == Sub(Sub(One, Mul(R(3), Sq(a))), Mul(R(2), Cube(a)))
        phi_2 == Mul(Neg(x), Sq(Sub(One, a)))
        phi_3 == Sub(Mul(R(3), Sq(a)), Mul(R(2), Cube(a)))
        phi_4 == Mul(Neg(x), Sub(Sq(a), a))
    IN  Vec4(phi_1, phi_2, phi_3, phi_4)

\* Postprocessor.__phi_displacment at one sample
phi_displacment(x, a) ==
    LET phi_1 == Add(Sub(One, Mul(R(3), Sq(a))), Mul(R(2), Cube(a)))
        phi_2 == Mul(Neg(x), Sq(Sub(One, a)))
        phi_3 == Sub(Mul(R(3), Sq(a)), Mul(R(2), Cube(a)))
        phi_4 == Mul(Neg(x), Sub(Sq(a), a))
    IN  Vec4(phi_1, phi_2, phi_3, phi_4)

\* Postprocessor.__phi_slope at one sample
phi_slope(length, a) ==
    LET phi_1 == Neg(Mul(Mul(Div(R(6), R(length)), a), Sub(One, a)))
        phi_2 == Neg(Sub(Add(One, Mul(R(3), Sq(a))), Mul(R(4), a)))
        phi_3 == Neg(phi_1)
        phi_4 == Mul(Neg(a), Sub(Mul(R(3), a), R(2)))
    IN  Vec4(phi_1, phi_2, phi_3, phi_4)

\* Postprocessor.__phi_moment at one sample
phi_moment(length, x) ==
    LET L     == R(length)
        xl    == Div(x, L)
        phi_1 == Mul(Div(R(-6), Sq(L)), Sub(One, Mul(R(2), xl)))
        phi_2 == Mul(Div(R(-2), L), Sub(Mul(R(3), xl), R(2)))
        phi_3 == Neg(phi_1)
        phi_4 == Mul(Div(R(-2), L), Sub(Mul(R(3), xl), One))
    IN  Vec4(phi_1, phi_2, phi_3, phi_4)

\* Postprocessor.__phi_shear at one sample
phi_shear(length, x) ==
    LET L     == R(length)
        fill  == One
        phi_1 == Mul(Div(R(12), Cube(L)), fill)
        phi_2 == Mul(Div(R(-6), Sq(L)), fill)
        phi_3 == Mul(Div(R(-12), Cube(L)), fill)
        phi_4 == Mul(Div(R(-6), Sq(L)), fill)
    IN  Vec4(phi_1, phi_2, phi_3, phi_4)

\* np.sum(disp_nodes * phi, axis=0) at one sample
SumNodes(disp_nodes, phi) ==
    Add(Add(Mul(disp_nodes[0], phi[0]), Mul(disp_nodes[1], phi[1])),
        Add(Mul(disp_nodes[2], phi[2]), Mul(disp_nodes[3], phi[3])))

\* the samples of one element: disp_nodes, and x_bar with a = x_bar / length
SamplesAt(action, num_points, disp_nodes, length, EI, x_bar) ==
    CASE action = "displacement" ->
            [j \in 1..num_points |->
                SumNodes(disp_nodes,
                         phi_displacment(x_bar[j], Div(x_bar[j], R(length))))]
      [] action = "slope" ->
            LET phi == [j \in 1..num_points |->
                            phi_slope(length, Div(x_bar[j], R(length)))]
            IN  <<>>
      [] action = "moment" ->
            [j \in 1..num_points |->
                Mul(EI, SumNodes(disp_nodes, phi_moment(length, x_bar[j])))]
      [] action = "shear" ->
            [j \in 1..num_points |->
                Mul(EI, SumNodes(disp_nodes, phi_shear(length, x_bar[j])))]
      [] OTHER -> <<>>

\* what one pass of the loop of interp extends `points` with, for element i
\* (0-based): the samples of the field, or nothing for 'slope', whose branch
\* computes phi and extends nothing
ElementSamples(b, num_points, action, i) ==
    SamplesAt(action, num_points,
              array([k \in 0..3 |-> b.displacement[i * 2 + k]]),
              b.len_elements[i + 1],
              R(b.E_elements[i + 1] * b.I_elements[i + 1]),
              linspace(b.len_elements[i + 1], num_points))

\* points.pop(-1)
Pop(points) == SubSeq(points, 1, Len(points) - 1)

\* the loop of Postprocessor.interp from element i on; pop from an empty
\* list raises IndexError
RECURSIVE InterpLoop(_, _, _, _, _)
InterpLoop(b, num_points, action, i, points) ==
    IF i >= b.num_elements THEN [err |-> "none", points |-> points]
    ELSE IF i # 0 /\ points = <<>> THEN [err |-> "IndexError", points |-> points]
    ELSE InterpLoop(b, num_points, action, i + 1,
                    (IF i # 0 THEN Pop(points) ELSE points)
                        \o ElementSamples(b, num_points, action, i))

interp(b, num_points, action) == InterpLoop(b, num_points, action, 0, <<>>)

(* ----------------------------- inputs ---------------------------------- *)
Load(type, magnitude, location, start, end) ==
    [type |-> type, magnitude |-> magnitude, location |-> location,
     start |-> start, end |-> end]

Magnitudes == {-3, 12}

\* the loads the data model allows on an element of the given length:
\* 0 <= location <= length, 0 <= start < end <= length
LoadsOn(length) ==
    {Load("udl", w, 0, 0, 0) : w \in Magnitudes}
    \cup {Load("point", w, a, 0, 0) : w \in Magnitudes, a \in 0..length}
    \cup {Load("moment", 12, a, 0, 0) : a \in 0..length}
    \cup {Load("patch", 12, 0, se[1], se[2]) :
            se \in {x \in (0..length) \X (0..length) : x[1] < x[2]}}

\* the lengths and the section properties a description may carry, valid
\* (positive) or not
Lengths == (-1)..MaxLen
Moduli == (-1)..MaxModulus

Desc(length, E, I, loads) ==
    [length |-> length, youngs_mod |-> E, moment_of_inertia |-> I, loads |-> loads]

\* the element descriptions of the beams analysed
BeamDescs ==
    {Desc(1, 1, 1, <<Load("udl", 12, 0, 0, 0)>>),
     Desc(2, 1, 2, <<Load("point", 8, 1, 0, 0)>>)}

\* the two support entries of a node: fixed, pinned, free, on a spring
NodeSupports == {<<-1, -1>>, <<-1, 0>>, <<0, 0>>, <<3, 0>>}

RECURSIVE Flatten(_)
Flatten(ss) == IF ss = <<>> THEN <<>> ELSE Head(ss) \o Flatten(Tail(ss))

\* support vectors for a beam of n elements: one entry per DOF, and the
\* same with the last entry missing or with one entry too many
SupportVectors(n) ==
    LET exact == {Flatten(ns) : ns \in [1..(n + 1) -> NodeSupports]}
    IN  exact
        \cup {Pop(sv) : sv \in exact}
        \cup {Append(sv, 0) : sv \in exact}

Actions == {"displacement", "slope", "moment", "shear"}

(* ------------------------------ state ---------------------------------- *)
VARIABLES
    pc,            \* where the analysis stands
    preprocessed,  \* the description last passed to Element()
    elements,      \* the Elements constructed so far
    beam,          \* the Beam under construction or constructed
    num_points,    \* Postprocessor.num_points
    action,        \* the argument of the last interp call
    points,        \* what the last interp call returned
    err            \* the exception that ended the run, or "none"

vars == <<pc, preprocessed, elements, beam, num_points, action, points, err>>

NoBeam ==
    [len_elements |-> <<>>, E_elements |-> <<>>, I_elements |-> <<>>,
     num_elements |-> 0, num_nodes |-> 0, num_dof |-> 0, supports |-> <<>>,
     stiffness |-> zeros2(0), load |-> zeros(0), displacement |-> zeros(0)]

NoDesc == Desc(0, 0, 0, <<>>)

Init ==
    /\ pc = "model"
    /\ preprocessed = NoDesc
    /\ elements = <<>>
    /\ beam = NoBeam
    /\ num_points = 0
    /\ action = "none"
    /\ points = <<>>
    /\ err = "none"

\* Element(desc) having returned or raised as e: the new Element joins the
\* list, or the exception ends the run
ElementReturn(desc, e) ==
    /\ pc = "model"
    /\ preprocessed' = desc
    /\ IF e.err = "none"
       THEN /\ elements' = Append(elements, e)
            /\ UNCHANGED <<pc, err>>
       ELSE /\ err' = e.err
            /\ pc' = "failed"
            /\ UNCHANGED elements
    /\ UNCHANGED <<beam, num_points, action, points>>

\* Element(desc)
ElementInit(desc) == ElementReturn(desc, ElementNew(desc))

\* one more element of the beam is built
BuildElement ==
    /\ Len(elements) < MaxElems
    /\ \E desc \in BeamDescs : ElementInit(desc)

\* an Element is built from any description the preprocessor may hand over
ConstructElement ==
    /\ elements = <<>>
    /\ \E L \in Lengths, E \in Moduli, I \in Moduli :
         \E k \in 0..MaxLoads : \E loads \in [1..k -> LoadsOn(L)] :
            ElementInit(Desc(L, E, I, loads))

\* the attributes Beam.__init__ sets up to the end of the assembly loop
BeamOf(elems, supports, n, D, asm) ==
    [len_elements |-> [k \in 1..n |-> elems[k].length],
     E_elements |-> [k \in 1..n |-> elems[k].E],
     I_elements |-> [k \in 1..n |-> elems[k].I],
     num_elements |-> n, num_nodes |-> n + 1, num_dof |-> D,
     supports |-> supports,
     stiffness |-> asm.stiffness, load |-> asm.load,
     displacement |-> zeros(0)]

BeamNew(elems, supports, D) ==
    BeamOf(elems, supports, Len(elems), D, Assemble(elems, D, 0, zeros2(D), zeros(D)))

\* Beam.__init__(elements, supports) up to the end of the assembly loop
BeamAssemble ==
    /\ pc = "model"
    /\ Len(elements) >= 1
    /\ \E supports \in SupportVectors(Len(elements)) :
          beam' = BeamNew(elements, supports, (Len(elements) + 1) * 2)
    /\ pc' = "assembled"
    /\ UNCHANGED <<preprocessed, elements, num_points, action, points, err>>

\* the support loop having ended as bc
EnforceReturn(bc) ==
    /\ IF bc.err = "none"
       THEN /\ beam' = [beam EXCEPT !.stiffness = bc.stiffness, !.load = bc.load]
            /\ pc' = "enforced"
            /\ UNCHANGED err
       ELSE /\ err' = bc.err
            /\ pc' = "failed"
            /\ UNCHANGED beam
    /\ UNCHANGED <<preprocessed, elements, num_points, action, points>>

\* Beam.__init__: the support loop
BeamEnforce ==
    /\ pc = "assembled"
    /\ EnforceReturn(Enforce(beam.stiffness, beam.load, beam.supports, 0, beam.num_dof))

\* np.linalg.solve having returned or raised as s
SolveReturn(s) ==
    /\ IF s.err = "none"
       THEN /\ beam' = [beam EXCEPT !.displacement = s.x]
            /\ pc' = "solved"
            /\ UNCHANGED err
       ELSE /\ err' = s.err
            /\ pc' = "failed"
            /\ UNCHANGED beam
    /\ UNCHANGED <<preprocessed, elements, num_points, action, points>>

\* Beam.__init__: the solve
BeamSolve ==
    /\ pc = "enforced"
    /\ SolveReturn(solve(beam.stiffness, beam.load, beam.num_dof))

\* Postprocessor(beam, num_points)
PostprocessorInit ==
    /\ pc = "solved"
    /\ \E n \in 1..MaxPoints : num_points' = n
    /\ pc' = "post"
    /\ UNCHANGED <<preprocessed, elements, beam, action, points, err>>

\* interp(f) having returned or raised as res
InterpReturn(f, res) ==
    /\ action' = f
    /\ IF res.err = "none"
       THEN /\ points' = res.points
            /\ pc' = "interpolated"
            /\ UNCHANGED err
       ELSE /\ err' = res.err
            /\ pc' = "failed"
            /\ UNCHANGED points
    /\ UNCHANGED <<preprocessed, elements, beam, num_points>>

\* Postprocessor.interp(action)
Interp ==
    /\ pc = "post"
    /\ \E f \in Actions : InterpReturn(f, interp(beam, num_points, f))

Next ==
    \/ BuildElement
    \/ BeamAssemble
    \/ BeamEnforce
    \/ BeamSolve
    \/ PostprocessorInit
    \/ Interp

Spec == Init /\ [][Next]_vars

\* Element construction alone, over every description
NextElement == ConstructElement

SpecElement == Init /\ [][NextElement]_vars

(* ------------------------------ claims --------------------------------- *)
Dofs == 0..(beam.num_dof - 1)
Support(i) == beam.supports[i + 1]
BeamBuilt == pc \in {"solved", "post", "interpolated"}
Enforced == pc \in {"enforced", "solved", "post", "interpolated"}
\* Element() has been called and has returned or raised
ElementCalled == elements # <<>> \/ (pc = "failed" /\ beam = NoBeam)
\* the description last passed to Element() satisfies the data model
ValidGeometry ==
    /\ preprocessed.length > 0
    /\ preprocessed.youngs_mod > 0
    /\ preprocessed.moment_of_inertia > 0

\* C1: for every field, every beam of n >= 1 elements and every
\* num_points >= 1, interp returns normally a flat sequence of length
\* num_points + (n - 1) * (num_points - 1).
C1_InterpLength ==
    action # "none" =>
        /\ pc = "interpolated"
        /\ Len(points) = num_points + (beam.num_elements - 1) * (num_points - 1)

\* C2: after the support loop, for every DOF i with supports[i] < 0, row i
\* and column i of K are zero except K[i,i] = 1 and F[i] = 0, and once the
\* solve has succeeded displacement[i] is 0.
C2_RestrainedDofs ==
    Enforced =>
        \A i \in Dofs : Support(i) < 0 =>
            /\ \A c \in Dofs :
                  /\ beam.stiffness[i][c] = (IF c = i THEN One ELSE Zero)
                  /\ beam.stiffness[c][i] = (IF c = i THEN One ELSE Zero)
            /\ beam.load[i] = Zero
            /\ BeamBuilt => beam.displacement[i] = Zero

\* a solved beam with a restrained DOF, a spring and a nonzero displacement
C2_Witness ==
    /\ pc = "solved"
    /\ \E i \in Dofs : Support(i) < 0
    /\ \E i \in Dofs : Support(i) > 0
    /\ \E i \in Dofs : beam.displacement[i] # Zero

\* the sum over the elements e < n whose window [2e, 2e + 4) holds r and c
\* of their local stiffness entry
RECURSIVE WindowSumK(_, _, _)
WindowSumK(r, c, n) ==
    IF n = 0 THEN Zero
    ELSE LET a == 2 * (n - 1)
         IN  Add(WindowSumK(r, c, n - 1),
                 IF r >= a /\ r < a + 4 /\ c >= a /\ c < a + 4
                 THEN elements[n].stiffness[r - a][c - a] ELSE Zero)

RECURSIVE WindowSumF(_, _)
WindowSumF(r, n) ==
    IF n = 0 THEN Zero
    ELSE LET a == 2 * (n - 1)
         IN  Add(WindowSumF(r, n - 1),
                 IF r >= a /\ r < a + 4 THEN elements[n].nodal_loads[r - a] ELSE Zero)

\* C3: before the supports are applied, K is 2(n+1) square and each entry
\* is the sum of the local stiffness entries of the elements whose window
\* [2i, 2i+4) covers it (zero elsewhere), and F is minus the sum of the
\* elements' nodal loads placed at their windows.
C3_Assembly ==
    pc = "assembled" =>
        /\ beam.num_dof = 2 * (Len(elements) + 1)
        /\ DOMAIN beam.stiffness = Dofs
        /\ DOMAIN beam.load = Dofs
        /\ \A r \in Dofs :
              /\ DOMAIN beam.stiffness[r] = Dofs
              /\ beam.load[r] = Neg(WindowSumF(r, Len(elements)))
              /\ \A c \in Dofs : beam.stiffness[r][c] = WindowSumK(r, c, Len(elements))

\* two elements assembled, whose shared block holds both contributions
C3_Witness ==
    /\ pc = "assembled"
    /\ Len(elements) >= 2
    /\ beam.stiffness[2][2] # elements[1].stiffness[2][2]
    /\ beam.stiffness[2][2] # elements[2].stiffness[0][0]
    /\ beam.stiffness[0][4] = Zero
    /\ beam.load[2] # Zero

IsMoment(load) == load.type = "moment"
NotMoment(load) == load.type # "moment"

\* C4: an Element whose loads hold a 'moment' load is constructed without
\* error, and its nodal_loads is the sum of the fixed-end reactions of its
\* other loads.
C4_MomentContributesZero ==
    (/\ ElementCalled
     /\ ValidGeometry
     /\ \E k \in DOMAIN preprocessed.loads : IsMoment(preprocessed.loads[k])) =>
        /\ pc # "failed"
        /\ elements # <<>>
        /\ elements[1].nodal_loads =
              load_vector(preprocessed.length, SelectSeq(preprocessed.loads, NotMoment),
                          1, [err |-> "none", nodal_loads |-> zeros(4)]).nodal_loads

\* C5: Beam construction fails whenever the supports vector is shorter or
\* longer than 2 * (number of elements + 1).
C5_SupportsLengthChecked ==
    (beam # NoBeam /\ Len(beam.supports) # 2 * (beam.num_elements + 1)) =>
        ~BeamBuilt

\* C6: for num_points >= 2 and every element k, the displacement samples at
\* the element's two ends are the solved nodal translations: entry
\* k * (num_points - 1) of the output is displacement[2k] and entry
\* (k + 1) * (num_points - 1) is displacement[2k + 2] (0-based).
C6_EndpointsMatchNodes ==
    (pc = "interpolated" /\ action = "displacement" /\ num_points >= 2) =>
        \A k \in 0..(beam.num_elements - 1) :
            /\ Len(points) >= (k + 1) * (num_points - 1) + 1
            /\ points[k * (num_points - 1) + 1] = beam.displacement[2 * k]
            /\ points[(k + 1) * (num_points - 1) + 1] = beam.displacement[2 * k + 2]

\* a two-element displacement field whose middle node has moved and whose
\* interior samples differ from the nodal values
C6_Witness ==
    /\ pc = "interpolated"
    /\ action = "displacement"
    /\ num_points >= 3
    /\ beam.num_elements >= 2
    /\ beam.displacement[2] # Zero
    /\ points[2] # beam.displacement[0]
    /\ points[2] # beam.displacement[2]

\* C7: constructing an Element with a non-positive length, elastic modulus
\* or moment of inertia fails, and no Element is produced.
C7_InvalidGeometryRejected ==
    (/\ ElementCalled
     /\ \/ preprocessed.length <= 0
        \/ preprocessed.youngs_mod <= 0
        \/ preprocessed.moment_of_inertia <= 0) =>
        /\ pc = "failed"
        /\ elements = <<>>

\* C8: in the output for n >= 2 elements and num_points >= 2, the value
\* kept at the node shared by elements k - 1 and k is the last sample of
\* element k - 1 (the first sample of element k is the one dropped).
C8_KeepsPreviousLastSample ==
    (pc = "interpolated" /\ beam.num_elements >= 2 /\ num_points >= 2) =>
        \A k \in 1..(beam.num_elements - 1) :
            points[k * (num_points - 1) + 1] =
                ElementSamples(beam, num_points, action, k - 1)[num_points]

\* C9: the support loop leaves the non-restrained DOFs alone but for the
\* spring diagonals: supports[i] > 0 adds supports[i] to K[i,i] and leaves
\* F[i]; supports[i] = 0 leaves K[i,i] and F[i]; every other entry K[r,c]
\* with r and c both non-restrained is as assembled.
C9_SupportLoopFrame ==
    [][(pc = "assembled" /\ pc' = "enforced") =>
        \A r \in Dofs : Support(r) >= 0 =>
            /\ beam'.load[r] = beam.load[r]
            /\ beam'.stiffness[r][r] =
                  (IF Support(r) > 0 THEN Add(beam.stiffness[r][r], R(Support(r)))
                   ELSE beam.stiffness[r][r])
            /\ \A c \in Dofs : (Support(c) >= 0 /\ c # r) =>
                  beam'.stiffness[r][c] = beam.stiffness[r][c]]_vars

\* supports applied to a beam with a spring, a free and a restrained DOF,
\* the spring sitting on a nonzero diagonal entry next to nonzero
\* off-diagonal entries
C9_Witness ==
    /\ pc = "enforced"
    /\ \E i \in Dofs : Support(i) < 0
    /\ \E i \in Dofs : Support(i) > 0 /\ beam.stiffness[i][i] # R(Support(i))
                       /\ beam.load[i] # Zero
    /\ \E r \in Dofs : \E c \in Dofs :
          Support(r) = 0 /\ Support(c) > 0 /\ beam.stiffness[r][c] # Zero

\* the force a load applies in total
Force(load) ==
    CASE load.type = "udl" -> R(load.magnitude * preprocessed.length)
      [] load.type = "point" -> R(load.magnitude)
      [] load.type = "patch" -> R(load.magnitude * (load.end - load.start))
      [] OTHER -> Zero

\* C10: the two shear entries (indices 0 and 2) of a load's fixed-end
\* reaction vector sum to the total applied force: w * L for a udl, p for
\* a point load, w * (end - start) for a patch, wherever the patch sits.
C10_VerticalEquilibrium ==
    (elements # <<>> /\ ValidGeometry /\ Len(preprocessed.loads) = 1) =>
        Add(elements[1].nodal_loads[0], elements[1].nodal_loads[2])
            = Force(preprocessed.loads[1])
====
